---- MODULE Spec2Model ----
(***************************************************************************)
(* Model of the Streamlit application in src/main.py: the search tab's     *)
(* session state (search_query, current_page, search_results, total_count, *)
(* selected_years), the script run that every widget event triggers, and   *)
(* the three collaborators the script calls (relational store, Cortex      *)
(* Search service, Cortex Complete).                                       *)
(***************************************************************************)
EXTENDS Integers, Sequences, FiniteSets, TLC

VARIABLES
    session_state,   \* st.session_state: initialized + the five search keys
    query_input,     \* value of the text_input widget (key "query_input")
    year_filter,     \* value of the slider widget (key "year_filter")
    slider,          \* min_value, max_value the slider widget was made with
    ted_talks,       \* the ted_talks table: least and greatest year of its rows
    shown,           \* what the last script run left rendered on the page
    calls,           \* outbound collaborator calls issued by the last action
    notices,         \* st.warning / st.error notices emitted by the last action
    action,          \* the last user action
    submitted,       \* request issued by the last submit that reached the index
    results_request, \* request whose response is cached in search_results
    corpus,          \* contents of the search index: year -> number of talks
    rerun            \* the last run ended in st.rerun(): the next run is due

vars == <<session_state, query_input, year_filter, slider, ted_talks, shown,
          calls, notices, action, submitted, results_request, corpus,
          rerun>>

-----------------------------------------------------------------------------
(* Program constants *)

MAX_RESULTS_PER_PAGE == 50
FallbackMinYear == 2000
FallbackMaxYear == 2024

(* Bounds of the model *)

YearSpan == 1          \* the talks span FirstYear .. FirstYear + YearSpan
TalksPerYear == 60     \* talks of a year of the index (see Corpora)
FewTalks == 2          \* talks of an index that fills no summary of three
MaxPage == 4           \* pages 1 .. MaxPage are asked of semantic_search
MaxTotalCount == 110   \* result pages of 0 .. MaxTotalCount rows are rendered

\* Years of the talks in youtube_data_TED.csv and in the search index.
FirstYear == FallbackMinYear + 1
LastYear == FirstYear + YearSpan
Years == FirstYear .. LastYear
YearRanges == {r \in Years \X Years : r[1] <= r[2]}

\* min_db_year, max_db_year = 2000, 2024  # Fallback values
FallbackYears == <<FallbackMinYear, FallbackMaxYear>>

\* The slider's range: the table's years, or the fallback.
SliderBounds == {<<FirstYear, LastYear>>, FallbackYears}

\* Values the slider can be given: every range of the talks' years, and the
\* whole fallback range.
SliderRanges == YearRanges \cup {FallbackYears}

\* Values a user gives the slider of the given range: the whole range, or
\* the first year of the talks alone.
YearChoices(bounds) == {bounds, <<FirstYear, FirstYear>>}
Texts == {"", "ai"}

\* Python's None, for a value that is otherwise a record ...
None == [none |-> TRUE]
\* ... and for one that is otherwise a tuple.
NoTuple == <<>>

\* A pandas DataFrame of the given rows.
DataFrame(rows) == [rows |-> rows]

Min(a, b) == IF a <= b THEN a ELSE b

-----------------------------------------------------------------------------
(* The index: rows, ranking, filter *)

\* upload_csv_to_snowflake stores a year as 1 January of that year.
YearToTimestamp(y) == <<y, 1, 1>>

\* Variant: the lower bound is formatted as 2 January.
min_date_after_new_year(min_year) == <<min_year, 1, 2>>

\* semantic_search formats the slider years as YYYY-01-01 / YYYY-12-31.
min_date(min_year) == <<min_year, 1, 1>>
max_date(max_year) == <<max_year, 12, 31>>

\* Order of ISO dates (YYYY-MM-DD compares like the triple).
DateLE(a, b) ==
    \/ a[1] < b[1]
    \/ a[1] = b[1] /\ a[2] < b[2]
    \/ a[1] = b[1] /\ a[2] = b[2] /\ a[3] <= b[3]

Talk(y, i) ==
    [VIDEO_TITLE |-> <<y, i>>,
     VIDEO_DESCRIPTION |-> <<y, i>>,
     VIDEO_YEAR |-> YearToTimestamp(y)]

RECURSIVE TalksFrom(_, _)
TalksFrom(c, y) ==
    IF y > LastYear THEN <<>>
    ELSE [i \in 1 .. c[y] |-> Talk(y, i)] \o TalksFrom(c, y + 1)

Reverse(s) == [i \in 1 .. Len(s) |-> s[Len(s) + 1 - i]]

\* Rank order the service gives the indexed talks for a query text.
Ranked(c, query) ==
    IF query = "ai" THEN Reverse(TalksFrom(c, FirstYear))
    ELSE TalksFrom(c, FirstYear)

Admits(filter_obj, row) ==
    \/ filter_obj = None
    \/ /\ DateLE(filter_obj.gte, row.VIDEO_YEAR)
       /\ DateLE(row.VIDEO_YEAR, filter_obj.lte)

\* The rows the filter admits, in their order.
Select(s, filter_obj) ==
    LET Test(row) == Admits(filter_obj, row)
    IN  SelectSeq(s, Test)

Slice(s, offset, n) ==
    IF offset >= Len(s) THEN <<>>
    ELSE SubSeq(s, offset + 1, Min(offset + n, Len(s)))

\* Index contents: a few talks for the last year only, or talks for every
\* year with twice as many for the first year.
Corpora ==
    {[y \in Years |-> IF y = LastYear THEN FewTalks ELSE 0],
     [y \in Years |-> IF y = FirstYear THEN 2 * TalksPerYear
                      ELSE TalksPerYear]}
Filters ==
    {None} \cup {[gte |-> min_date(r[1]), lte |-> max_date(r[2])] : r \in SliderRanges}

\* The ranked rows the filter admits, for every index content, text and filter.
Matching ==
    [c \in Corpora, query \in Texts, filter_obj \in Filters |->
        Select(Ranked(c, query), filter_obj)] @@ <<>>

\* svc.search(query, columns, limit, offset, filter) -> response.results
svc_search(c, query, limit, offset, filter_obj) ==
    Slice(Matching[c, query, filter_obj], offset, limit)

-----------------------------------------------------------------------------
(* semantic_search *)

\* Variant: the offset is counted from the end of the page.
OffsetPastPage(page) == page * MAX_RESULTS_PER_PAGE

Offset(page) == (page - 1) * MAX_RESULTS_PER_PAGE

FilterObj(year_range) ==
    IF year_range = NoTuple THEN None
    ELSE IF year_range[1] # 0 /\ year_range[2] # 0
         THEN [gte |-> min_date(year_range[1]), lte |-> max_date(year_range[2])]
         ELSE None

SearchRequest(query, page, year_range) ==
    [svc |-> "search", query |-> query, limit |-> MAX_RESULTS_PER_PAGE,
     offset |-> Offset(page), filter |-> FilterObj(year_range)]

\* pd.to_datetime(VIDEO_YEAR).dt.year on every returned row
ToDataFrame(results) ==
    DataFrame([i \in 1 .. Len(results) |->
                  [results[i] EXCEPT !.VIDEO_YEAR = @[1]]])

\* Variant: the count is one more than the rows returned.
TotalCountPlusOne(results) == Len(results) + 1

TotalCount(results) == Len(results)

SearchOutcomes == {"ok", "session_error", "search_error"}

\* return results_df, total_count
SearchReturn(req, results) ==
    [results |-> ToDataFrame(results), total_count |-> TotalCount(results),
     calls |-> <<req>>, notices |-> <<>>]

\* except: st.error(...); return None, 0
SearchExcept(issued) ==
    [results |-> None, total_count |-> 0, calls |-> issued,
     notices |-> <<"search_error">>]

\* Variant: a failed svc.search is tried a second time.
SearchCallRetries(c, req, outcome) ==
    CASE outcome = "ok" ->
           SearchReturn(req, svc_search(c, req.query, req.limit,
                                        req.offset, req.filter))
      [] outcome = "search_error" -> SearchExcept(<<req, req>>)
      [] OTHER -> SearchExcept(<<>>)

\* The body of semantic_search for the request it builds.
\* outcome: "ok", or the call that raised (session creation / svc.search).
SearchCall(c, req, outcome) ==
    CASE outcome = "ok" ->
           SearchReturn(req, svc_search(c, req.query, req.limit,
                                        req.offset, req.filter))
      [] outcome = "search_error" -> SearchExcept(<<req>>)
      [] OTHER -> SearchExcept(<<>>)

semantic_search(c, query, page, year_range, outcome) ==
    SearchCall(c, SearchRequest(query, page, year_range), outcome)

-----------------------------------------------------------------------------
(* get_top_results_summary *)

\* Variant: the prompt lists every row of the page (no head(3)).
TopRowsWholePage(results_df) ==
    [idx \in 1 .. Len(results_df.rows) |->
        [n |-> idx,
         title |-> results_df.rows[idx].VIDEO_TITLE,
         description |-> results_df.rows[idx].VIDEO_DESCRIPTION]]

\* for idx, row in results_df.head(3).iterrows()
TopRows(results_df) ==
    [idx \in 1 .. Min(3, Len(results_df.rows)) |->
        [n |-> idx,
         title |-> results_df.rows[idx].VIDEO_TITLE,
         description |-> results_df.rows[idx].VIDEO_DESCRIPTION]]

CompleteOutcomes == {"ok", "session_error", "complete_error"}

CompleteRequest(results_df) ==
    [svc |-> "complete", model |-> "mistral-large2",
     videos |-> TopRows(results_df)]

\* Variant: a failed completion is swallowed without st.error.
CompleteCallUnnoticed(req, outcome) ==
    CASE outcome = "ok" ->
           [summaries |-> <<[title |-> "Top 3 Talks Summary",
                             summary |-> <<"summary of", req.videos>>]>>,
            calls |-> <<req>>, notices |-> <<>>]
      [] outcome = "complete_error" ->
           [summaries |-> <<>>, calls |-> <<req>>, notices |-> <<>>]
      [] OTHER ->
           [summaries |-> <<>>, calls |-> <<>>, notices |-> <<>>]

\* The body of get_top_results_summary for the prompt it builds.
CompleteCall(req, outcome) ==
    CASE outcome = "ok" ->
           [summaries |-> <<[title |-> "Top 3 Talks Summary",
                             summary |-> <<"summary of", req.videos>>]>>,
            calls |-> <<req>>, notices |-> <<>>]
      [] outcome = "complete_error" ->
           [summaries |-> <<>>, calls |-> <<req>>,
            notices |-> <<"summary_error">>]
      [] OTHER ->
           [summaries |-> <<>>, calls |-> <<>>,
            notices |-> <<"summary_error">>]

get_top_results_summary(results_df, outcome) ==
    CompleteCall(CompleteRequest(results_df), outcome)

-----------------------------------------------------------------------------
(* main(): one run of the script *)

InitOutcomes == {"ok", "error", "session_error"}
StoreOutcomes == {"ok", "error", "session_error"}

\* reset_table() runs two statements in its try: the first can raise (the
\* table is as it was) or the second (the table is dropped and not created).
ResetOutcomes == StoreOutcomes \cup {"error_at_create"}

\* The ted_talks table by the years of its rows: no rows, or the rows of the
\* CSV file; or no table at all.
EmptyTable == NoTuple
CsvYears == <<FirstYear, LastYear>>
NoTable == <<"no table">>
Tables == {NoTable, EmptyTable, CsvYears}

\* Session state before the first run: no key is set.
EmptySession == [initialized |-> FALSE]

\* Nothing rendered.
BlankPage ==
    [upload_controls |-> FALSE, buttons |-> {}, query_box |-> FALSE,
     controls |-> FALSE,
     listing |-> FALSE,
     summary |-> NoTuple, pager |-> NoTuple, prev |-> FALSE, next |-> FALSE,
     showing |-> NoTuple, notices |-> <<>>]

\* if 'search_query' not in st.session_state: set the five defaults
InitSearchKeys(S) ==
    IF "search_query" \notin DOMAIN S
    THEN [initialized |-> S.initialized, search_query |-> "",
          current_page |-> 1, search_results |-> None, total_count |-> 0,
          selected_years |-> NoTuple]
    ELSE S

\* Variant: moving the slider also goes back to the first page.
year_filter_fragment_resets_page(S, years) ==
    [S EXCEPT !.selected_years = years, !.current_page = 1,
              !.search_results = None, !.total_count = 0]

\* The fragment: st.session_state.selected_years = years
year_filter_fragment(S, years) == [S EXCEPT !.selected_years = years]

\* Variant: only a missing query is refused ("if query is None").
EmptyQueryIsNone(query) == FALSE

\* if not query: warning
EmptyQuery(query) == query = ""

\* What a handler passed to semantic_search, and how the call ended.
Fetch(by, query, page, year_range, outcome) ==
    [by |-> by, request |-> SearchRequest(query, page, year_range),
     outcome |-> outcome]

\* Variant: a failed fetch leaves the cached page in place.
StoreSearchUnlessFailed(S, r) ==
    IF r.results = None THEN S
    ELSE [S EXCEPT !.search_results = r.results, !.total_count = r.total_count]

\* st.session_state.search_results = results; .total_count = total_count
StoreSearch(S, r) ==
    [S EXCEPT !.search_results = r.results, !.total_count = r.total_count]

\* Assignments of a navigation handler after its fetch.
StoreNavigation(S, r) == StoreSearch(S, r)

\* What a handler leaves: the session, its calls and notices, its fetch.
Handled(S, r, fetch) ==
    [S |-> S, calls |-> r.calls, notices |-> r.notices, fetch |-> fetch]

NoCall == [summaries |-> <<>>, calls |-> <<>>, notices |-> <<>>]

\* Variant: the handler adds the new count to the stored one.
SubmitStoreAccumulates(S1, r, outcome) ==
    Handled([StoreSearch(S1, r) EXCEPT
                 !.total_count = S1.total_count + r.total_count],
            r,
            Fetch("submit", S1.search_query, S1.current_page,
                  S1.selected_years, outcome))

\* The assignments of the Search handler after its fetch.
SubmitStore(S1, r, outcome) ==
    Handled(StoreSearch(S1, r), r,
            Fetch("submit", S1.search_query, S1.current_page,
                  S1.selected_years, outcome))

\* Variant: the fetch asks for the page after the first.
SubmitFetchNextPage(S1, c, outcome) ==
    SubmitStore(S1,
                semantic_search(c, S1.search_query, 2,
                                S1.selected_years, outcome),
                outcome)

\* search_query = query; current_page = 1; fetch page 1; store.
SubmitFetch(S1, c, outcome) ==
    SubmitStore(S1,
                semantic_search(c, S1.search_query, 1,
                                S1.selected_years, outcome),
                outcome)

\* The Search button handler.
SubmitSearch(S, query, c, outcome) ==
    IF EmptyQuery(query)
    THEN [S |-> S, calls |-> <<>>, notices |-> <<"empty_query">>,
          fetch |-> None]
    ELSE SubmitFetch([S EXCEPT !.search_query = query, !.current_page = 1],
                     c, outcome)

HasRows(S) == S.search_results # None /\ S.search_results.rows # <<>>

SummaryDue(S) == S.current_page = 1

\* Variant: one more than the floor of the quotient.
TotalPagesFloorPlusOne(total_count) ==
    total_count \div MAX_RESULTS_PER_PAGE + 1

TotalPages(total_count) ==
    (total_count + MAX_RESULTS_PER_PAGE - 1) \div MAX_RESULTS_PER_PAGE

\* if st.session_state.current_page > 1: Previous button
PrevOffered(S) == S.current_page > 1

\* Variant: Next is offered on the last page too.
NextOfferedOnLastPage(S, total_pages) == S.current_page <= total_pages

\* if st.session_state.current_page < total_pages: Next button
NextOffered(S, total_pages) == S.current_page < total_pages

\* The assignments of a Previous / Next handler after its fetch.
NavigateStore(S1, r, outcome) ==
    Handled(StoreNavigation(S1, r), r,
            Fetch("navigate", S1.search_query, S1.current_page,
                  S1.selected_years, outcome))

\* The fetch of a Previous / Next handler, for the page it stepped to.
NavigateFetch(S1, c, outcome) ==
    NavigateStore(S1,
                  semantic_search(c, S1.search_query, S1.current_page,
                                  S1.selected_years, outcome),
                  outcome)

\* A Previous / Next handler: step the page, fetch, store (then st.rerun()).
Navigate(S, step, c, outcome) ==
    NavigateFetch([S EXCEPT !.current_page = @ + step], c, outcome)

Showing(S) ==
    <<Offset(S.current_page) + 1,
      Min(S.current_page * MAX_RESULTS_PER_PAGE, S.total_count),
      S.total_count>>

\* The button of this run's click, when the run offers it: -1, 1 or 0.
Step(S, ev) ==
    IF ev = "prev" /\ PrevOffered(S) THEN -1
    ELSE IF ev = "next" /\ NextOffered(S, TotalPages(S.total_count)) THEN 1
    ELSE 0

\* A run that ends in a navigation handler's st.rerun(): S is the session
\* the run found, and the page holds what was rendered before the handler
\* (summary, pager, the Previous button, and the Next button when it is the
\* clicked one).
Navigated(S, step, nav, page, out, sum) ==
    [S |-> nav.S,
     calls |-> out.calls \o sum.calls \o nav.calls,
     notices |-> out.notices \o sum.notices \o nav.notices,
     rerun |-> TRUE, fetch |-> nav.fetch, W |-> out.W,
     shown |-> [page EXCEPT
         !.summary = IF sum.summaries = <<>> THEN NoTuple
                     ELSE sum.summaries[1].summary,
         !.pager = <<S.current_page, TotalPages(S.total_count)>>,
         !.prev = PrevOffered(S),
         !.next = (step = 1),
         !.notices = out.notices \o sum.notices \o nav.notices]]

\* A run that renders the cached page to the end.
Listed(S, page, out, sum) ==
    [S |-> S,
     calls |-> out.calls \o sum.calls,
     notices |-> out.notices \o sum.notices,
     rerun |-> FALSE, fetch |-> out.fetch, W |-> out.W,
     shown |-> [page EXCEPT
         !.listing = TRUE,
         !.summary = IF sum.summaries = <<>> THEN NoTuple
                     ELSE sum.summaries[1].summary,
         !.pager = <<S.current_page, TotalPages(S.total_count)>>,
         !.prev = PrevOffered(S),
         !.next = NextOffered(S, TotalPages(S.total_count)),
         !.showing = Showing(S),
         !.notices = out.notices \o sum.notices]]

\* The pagination controls and the listing, after the summary.
Paginate(S, ev, in, page, out, sum, c) ==
    IF Step(S, ev) # 0
    THEN Navigated(S, Step(S, ev), Navigate(S, Step(S, ev), c, in.search),
                   page, out, sum)
    ELSE Listed(S, page, out, sum)

\* A run that has no rows to render.
NotListed(S, page, out, n) ==
    [S |-> S, calls |-> out.calls, notices |-> out.notices \o n,
     rerun |-> FALSE, fetch |-> out.fetch, W |-> out.W,
     shown |-> [page EXCEPT !.notices = out.notices \o n]]

\* "Display results if we have them" to the end of main().
\* page: what the run has rendered so far; out: calls and notices so far.
Display(S, ev, in, page, out, c) ==
    IF HasRows(S)
    THEN Paginate(S, ev, in, page, out,
                  IF SummaryDue(S)
                  THEN get_top_results_summary(S.search_results, in.complete)
                  ELSE NoCall,
                  c)
    ELSE NotListed(S, page, out,
                   IF S.search_results # None THEN <<"no_results">> ELSE <<>>)

\* An exception nothing catches ends the run where it is raised.
Abort(S, page, done) ==
    [S |-> S, calls |-> done.calls,
     notices |-> done.notices \o <<"uncaught_exception">>,
     rerun |-> FALSE, fetch |-> None, W |-> done.W,
     shown |-> [page EXCEPT !.notices = done.notices \o <<"uncaught_exception">>]]

\* The calls and notices of the run so far, after the Search button.
AfterSearch(done, sub) ==
    [calls |-> done.calls \o sub.calls,
     notices |-> done.notices \o sub.notices,
     fetch |-> sub.fetch, W |-> done.W]

\* From the Search button on.
Submitted(sub, ev, in, page, done, c) ==
    Display(sub.S, ev, in, page, AfterSearch(done, sub), c)

\* The query box, the year filter and the Search button.
SearchControls(S2, W, ev, in, page, done, c) ==
    Submitted(IF ev = "search"
              THEN SubmitSearch(S2, W.query_input, c, in.search)
              ELSE [S |-> S2, calls |-> <<>>, notices |-> <<>>, fetch |-> None],
              ev, in, page, done, c)

\* SELECT YEAR(MIN(VIDEO_YEAR)), YEAR(MAX(VIDEO_YEAR)) FROM ted_talks
\* The years of the table, (None, None) for a table with no rows, the
\* fallback values when the statement raises, as it does when there is no
\* table.
year_range(T, outcome) ==
    IF outcome = "ok" /\ T # NoTable THEN T ELSE FallbackYears

\* st.slider(min_value, max_value, value=(min_value, max_value),
\* key="year_filter"): a slider made with another range is another widget
\* and starts from its default value.
Slider(W, bounds) ==
    [W EXCEPT !.year_filter = IF W.slider = bounds THEN @ ELSE bounds,
              !.slider = bounds]

\* year_filter() and what follows it, for the widget values of this run.
YearFilter(S, W1, ev, in, page, done, c) ==
    SearchControls(year_filter_fragment(S, W1.year_filter), W1, ev, in,
                   [page EXCEPT !.controls = TRUE],
                   [done EXCEPT !.W = W1], c)

\* The query box, then the slider: int(min_db_year) raises on None.
QueryBox(S, bounds, ev, in, page, done, c) ==
    IF bounds = NoTuple
    THEN Abort(S, page, done)
    ELSE YearFilter(S, Slider(done.W, bounds), ev, in, page, done, c)

\* with search_tab: ...
SearchTab(S, ev, in, page, done, c) ==
    IF ~in.db_session_ok
    THEN Abort(InitSearchKeys(S), page, done)
    ELSE QueryBox(InitSearchKeys(S),
                  year_range(done.W.ted_talks, in.year_query),
                  ev, in, [page EXCEPT !.query_box = TRUE], done, c)

NothingDone(W) == [calls |-> <<>>, notices |-> <<>>, W |-> W]

UploadButtons == {"reset", "upload", "preview"}

\* The buttons of the upload tab a run has rendered when it reaches the
\* handler of the clicked one: Reset Table, Upload TED Talks Data, Preview
\* Data, in this order.
ButtonsUpTo(ev) ==
    CASE ev = "reset" -> {"reset"}
      [] ev = "upload" -> {"reset", "upload"}
      [] OTHER -> UploadButtons

\* reset_table(): DROP TABLE IF EXISTS ted_talks; CREATE TABLE ...
reset_table(T, outcome) ==
    CASE outcome = "ok" -> EmptyTable
      [] outcome = "error_at_create" -> NoTable
      [] OTHER -> T

\* upload_csv_to_snowflake(): write.mode("overwrite").save_as_table
upload_csv_to_snowflake(T, outcome) == IF outcome = "ok" THEN CsvYears ELSE T

\* The table after the handler of the clicked button.
ButtonHandler(T, ev, outcome) ==
    CASE ev = "reset" -> reset_table(T, outcome)
      [] ev = "upload" -> upload_csv_to_snowflake(T, outcome)
      [] OTHER -> T

\* Whether the handler of the clicked button ends in its st.error: a
\* statement raised, as SELECT * FROM ted_talks does when there is no table.
HandlerFailed(T, ev, outcome) ==
    /\ ev \in UploadButtons
    /\ \/ outcome \in {"error", "error_at_create"}
       \/ ev = "preview" /\ T = NoTable

\* The upload tab once the resources are initialized, then the search tab.
UploadTab(S1, W, ev, in, page, c) ==
    IF ev \in UploadButtons /\ in.store = "session_error"
    THEN Abort(S1, [page EXCEPT !.buttons = ButtonsUpTo(ev)], NothingDone(W))
    ELSE SearchTab(S1, ev, in, [page EXCEPT !.buttons = UploadButtons],
                   [calls |-> <<>>,
                    notices |-> IF HandlerFailed(W.ted_talks, ev, in.store)
                                THEN <<"store_error">> ELSE <<>>,
                    W |-> [W EXCEPT !.ted_talks =
                                        ButtonHandler(@, ev, in.store)]],
                   c)

\* initialize_snowflake(): ... CREATE TABLE IF NOT EXISTS ted_talks
initialize_snowflake(T, outcome) ==
    IF outcome = "ok" /\ T = NoTable THEN EmptyTable ELSE T

\* The widgets and the table after the initialization of a new session.
Initialized(S, W, outcome) ==
    IF S.initialized THEN W
    ELSE [W EXCEPT !.ted_talks = initialize_snowflake(@, outcome)]

\* if 'initialized' not in st.session_state: initialize_snowflake()
InitializeCalls(S) ==
    IF S.initialized THEN <<>> ELSE <<[svc |-> "initialize"]>>

\* Variant: a successful initialization is not recorded in the session.
MarkInitializedNever(S) == S

\* st.session_state.initialized = True
MarkInitialized(S) == [S EXCEPT !.initialized = TRUE]

\* A run, after the initialization that preceded it.
AfterInitialize(first_calls, run) ==
    [run EXCEPT !.calls = first_calls \o @]

\* main(): one run of the script.
Script(S, W, ev, in, c) ==
    IF ~S.initialized /\ in.init = "session_error"
    THEN Abort(S, BlankPage,
               [calls |-> InitializeCalls(S), notices |-> <<>>, W |-> W])
    ELSE IF ~S.initialized /\ in.init = "error"
    THEN [S |-> S, calls |-> InitializeCalls(S),
          notices |-> <<"init_error">>,
          rerun |-> FALSE, fetch |-> None, W |-> W,
          shown |-> [BlankPage EXCEPT !.notices = <<"init_error">>]]
    ELSE AfterInitialize(
             InitializeCalls(S),
             UploadTab(IF S.initialized THEN S ELSE MarkInitialized(S),
                       Initialized(S, W, in.init), ev, in,
                       [BlankPage EXCEPT !.upload_controls = TRUE], c))

-----------------------------------------------------------------------------
(* The session: initial state and user actions *)

Init ==
    /\ session_state = EmptySession
    /\ query_input = ""
    /\ year_filter = NoTuple
    /\ slider = NoTuple
    /\ ted_talks \in Tables
    /\ shown = BlankPage
    /\ calls = <<>>
    /\ notices = <<>>
    /\ action = [name |-> "none"]
    /\ submitted = None
    /\ results_request = None
    /\ corpus \in Corpora
    /\ rerun = FALSE

\* The widget values and the table a run of the script starts from.
Widgets ==
    [query_input |-> query_input, year_filter |-> year_filter,
     slider |-> slider, ted_talks |-> ted_talks]

\* Outcomes given to calls the run never reaches, because an earlier call
\* ended it.
Unreached(in) ==
    \/ in.init # "ok" /\ (in.store # "ok" \/ ~in.db_session_ok)
    \/ in.store = "session_error" /\ ~in.db_session_ok
    \/ (in.init # "ok" \/ in.store = "session_error" \/ ~in.db_session_ok)
          /\ (in.year_query # "ok" \/ in.search # "ok" \/ in.complete # "ok")

YearQueryOutcomes == {"ok", "error"}

\* Whether a run started by the event can reach the completion call: the
\* Search handler may cache a first page, any other run renders the cached one.
SummaryReachable(ev) ==
    \/ ev = "search"
    \/ /\ "search_query" \in DOMAIN session_state
       /\ HasRows(session_state)
       /\ SummaryDue(session_state)

\* Outcomes of the collaborator calls a run of the script can reach.
Inputs(ev) ==
    {in \in [init : IF session_state.initialized THEN {"ok"} ELSE InitOutcomes,
             store : IF ev = "reset" THEN ResetOutcomes
                     ELSE IF ev \in UploadButtons THEN StoreOutcomes
                     ELSE {"ok"},
             db_session_ok : BOOLEAN,
             year_query : YearQueryOutcomes,
             search : IF ev \in {"search", "prev", "next"}
                      THEN SearchOutcomes ELSE {"ok"},
             complete : IF SummaryReachable(ev)
                        THEN CompleteOutcomes ELSE {"ok"}] : ~Unreached(in)}

\* Every collaborator call succeeds.
NoFailure == [init |-> "ok", store |-> "ok", db_session_ok |-> TRUE,
              year_query |-> "ok", search |-> "ok", complete |-> "ok"]

\* The state a run of the script leaves.
Commit(name, out) ==
    /\ session_state' = out.S
    /\ shown' = out.shown
    /\ calls' = out.calls
    /\ notices' = out.notices
    /\ action' = [name |-> name]
    /\ year_filter' = out.W.year_filter
    /\ slider' = out.W.slider
    /\ ted_talks' = out.W.ted_talks
    /\ submitted' = IF out.fetch # None /\ out.fetch.by = "submit"
                    THEN out.fetch.request ELSE submitted
    /\ results_request' =
           IF out.fetch = None THEN results_request
           ELSE IF out.fetch.outcome = "ok" THEN out.fetch.request
           ELSE None
    /\ rerun' = out.rerun
    /\ UNCHANGED corpus

\* A run of the script with the widget values and the event that reached it.
Apply(name, W, ev, in) ==
    Commit(name, Script(session_state, W, ev, in, corpus))

\* The script runs with no widget event: when the page is opened, and when
\* a Previous / Next handler has ended its run in st.rerun().
Load ==
    /\ session_state.initialized => rerun
    /\ \E in \in Inputs("none") :
           Apply(IF rerun THEN "Rerun" ELSE "Load", Widgets, "none", in)
    /\ UNCHANGED query_input

\* Reset Table / Upload TED Talks Data / Preview Data.
ClickUploadTab ==
    /\ \E button \in shown.buttons : \E in \in Inputs(button) :
           Apply("ClickUploadTab", Widgets, button, in)
    /\ UNCHANGED query_input

\* Committing a new text in the query box reruns the script.
EditQuery ==
    /\ shown.query_box
    /\ \E text \in Texts \ {query_input} : \E in \in Inputs("none") :
           /\ query_input' = text
           /\ Apply("EditQuery", [Widgets EXCEPT !.query_input = text],
                    "none", in)

\* Moving the slider reruns the fragment alone.
ChangeYearFilter ==
    /\ shown.controls
    /\ \E years \in YearChoices(slider) \ {year_filter} :
           /\ year_filter' = years
           /\ session_state' = year_filter_fragment(session_state, years)
           /\ action' = [name |-> "ChangeYearFilter"]
    /\ calls' = <<>>
    /\ notices' = <<>>
    /\ UNCHANGED <<query_input, slider, ted_talks, shown, submitted,
                   results_request, corpus, rerun>>

\* The buttons of the search tab the page offers.
OfferedButtons(page) ==
    (IF page.controls THEN {"search"} ELSE {})
        \cup (IF page.prev THEN {"prev"} ELSE {})
        \cup (IF page.next THEN {"next"} ELSE {})

ClickName(ev) ==
    CASE ev = "search" -> "ClickSearch"
      [] ev = "prev" -> "ClickPrevious"
      [] ev = "next" -> "ClickNext"

\* A click on Search, Previous or Next, whichever the page offers: the run
\* of the script with that button's handler. A Previous / Next handler ends
\* the run in st.rerun(), and the run that follows is the next step.
ClickButton ==
    /\ \E ev \in OfferedButtons(shown) : \E in \in Inputs(ev) :
           Apply(ClickName(ev), Widgets, ev, in)
    /\ UNCHANGED query_input

Next ==
    \/ Load
    \/ ClickUploadTab
    \/ EditQuery
    \/ ChangeYearFilter
    \/ ClickButton

Spec == Init /\ [][Next]_vars

-----------------------------------------------------------------------------
(* semantic_search called on its own, for every query, page and year range *)

\* year_range: a pair of years, or None (the parameter's default).
YearRangeArgs == {NoTuple} \cup SliderRanges

SearchArgs ==
    {[initialized |-> TRUE, search_query |-> query, current_page |-> page,
      search_results |-> None, total_count |-> 0, selected_years |-> years] :
        query \in Texts \ {""}, page \in 1 .. MaxPage,
        years \in YearRangeArgs}

FilterInit ==
    /\ session_state \in SearchArgs
    /\ query_input = ""
    /\ year_filter = CsvYears
    /\ slider = CsvYears
    /\ ted_talks = CsvYears
    /\ shown = BlankPage
    /\ calls = <<>>
    /\ notices = <<>>
    /\ action = [name |-> "none"]
    /\ submitted = None
    /\ results_request = None
    /\ corpus \in Corpora
    /\ rerun = FALSE

\* The state a return of semantic_search leaves once its values are stored.
SearchReturned(S, r) ==
    /\ session_state' = StoreSearch(S, r)
    /\ calls' = r.calls
    /\ notices' = r.notices
    /\ action' = [name |-> "semantic_search"]

\* results, total_count = semantic_search(query, page, year_range)
CallSemanticSearch ==
    /\ action.name = "none"
    /\ \E outcome \in SearchOutcomes :
           SearchReturned(session_state,
                          semantic_search(corpus,
                                          session_state.search_query,
                                          session_state.current_page,
                                          session_state.selected_years,
                                          outcome))
    /\ UNCHANGED <<query_input, year_filter, slider, ted_talks, shown,
                   submitted, results_request, corpus, rerun>>

FilterNext == CallSemanticSearch

FilterSpec == FilterInit /\ [][FilterNext]_vars

-----------------------------------------------------------------------------
(* The display part of main() on its own, for every cached row count *)

\* What semantic_search returns for a response of t rows.
Returned(t) ==
    SearchReturn(None, [i \in 1 .. t |-> Talk(FirstYear, i)])

\* Sessions holding what a fetch stored: None and 0 after a failure, else the
\* rows of the response and their number.
CachedSessions ==
    {StoreSearch([initialized |-> TRUE, search_query |-> "ai",
                  current_page |-> page, search_results |-> None,
                  total_count |-> 0,
                  selected_years |-> <<FirstYear, LastYear>>], r) :
        page \in 1 .. MaxPage,
        r \in {SearchExcept(<<>>)} \cup {Returned(t) : t \in 0 .. MaxTotalCount}}

RenderInit ==
    /\ session_state \in CachedSessions
    /\ query_input = "ai"
    /\ year_filter = CsvYears
    /\ slider = CsvYears
    /\ ted_talks = CsvYears
    /\ shown = BlankPage
    /\ calls = <<>>
    /\ notices = <<>>
    /\ action = [name |-> "none"]
    /\ submitted = None
    /\ results_request = None
    /\ corpus \in Corpora
    /\ rerun = FALSE

\* What a run leaves on the page.
Rendered(out) ==
    /\ shown' = out.shown
    /\ calls' = out.calls
    /\ notices' = out.notices
    /\ action' = [name |-> "Render"]

\* "Display results if we have them" with no button clicked.
Render ==
    /\ action.name = "none"
    /\ \E outcome \in CompleteOutcomes :
           Rendered(Display(session_state, "none",
                            [NoFailure EXCEPT !.complete = outcome],
                            [BlankPage EXCEPT !.upload_controls = TRUE,
                                              !.buttons = UploadButtons,
                                              !.query_box = TRUE,
                                              !.controls = TRUE],
                            [calls |-> <<>>, notices |-> <<>>, fetch |-> None,
                             W |-> Widgets],
                            corpus))
    /\ UNCHANGED <<session_state, query_input, year_filter, slider, ted_talks,
                   submitted, results_request, corpus, rerun>>

RenderNext == Render

RenderSpec == RenderInit /\ [][RenderNext]_vars

-----------------------------------------------------------------------------
(* The same search submitted twice in a row *)

\* Sessions a first submit can start from: nothing cached, an empty result,
\* or a full listing, on any page.
PriorSessions ==
    {S \in CachedSessions : S.total_count \in {0, MaxTotalCount}}

ResubmitInit ==
    /\ session_state \in PriorSessions
    /\ query_input = "ai"
    /\ slider \in SliderBounds
    /\ year_filter \in YearChoices(slider)
    /\ ted_talks = CsvYears
    /\ shown = [BlankPage EXCEPT !.upload_controls = TRUE,
                                  !.buttons = UploadButtons,
                                  !.query_box = TRUE,
                                  !.controls = TRUE]
    /\ calls = <<>>
    /\ notices = <<>>
    /\ action = [name |-> "none"]
    /\ submitted = None
    /\ results_request = None
    /\ corpus \in Corpora
    /\ rerun = FALSE

\* A click on Search with the text and the year filter of the widgets.
SubmitFirst ==
    /\ action.name = "none"
    /\ \E in \in Inputs("search") :
           Apply("SubmitFirst", Widgets, "search", in)
    /\ UNCHANGED query_input

\* The next click on Search, with the widgets untouched.
SubmitSecond ==
    /\ action.name = "SubmitFirst"
    /\ shown.controls
    /\ \E in \in Inputs("search") :
           Apply("SubmitSecond", Widgets, "search", in)
    /\ UNCHANGED query_input

ResubmitNext == SubmitFirst \/ SubmitSecond

ResubmitSpec == ResubmitInit /\ [][ResubmitNext]_vars

-----------------------------------------------------------------------------
(* Properties *)

Has(seq, x) == \E i \in DOMAIN seq : seq[i] = x
SearchCalls(seq) == {i \in DOMAIN seq : seq[i].svc = "search"}
CompleteCalls(seq) == {i \in DOMAIN seq : seq[i].svc = "complete"}

Ready == "search_query" \in DOMAIN session_state
Cached == Ready /\ session_state.search_results # None
Listing == Ready /\ HasRows(session_state)
NavigationNames == {"ClickPrevious", "ClickNext"}

\* The search fields of the session other than the year filter.
SearchFields(S) ==
    <<S.search_query, S.current_page, S.search_results, S.total_count>>

\* C1: when the index call of a Previous / Next handler fails, the page that
\* was cached before the click is still the cached page afterwards and the
\* page shows an error notice. (No reachable page offers Previous or Next:
\* see C18.)
C1_NavigationFailureKeepsPage ==
    [][(action'.name \in NavigationNames /\ Has(notices', "search_error"))
         => /\ session_state'.search_results = session_state.search_results
            /\ Has(shown'.notices, "search_error")]_vars

\* C2: whenever a result page is cached, it is the response to the request
\* for the session's current page number: its offset is
\* (current_page - 1) * MAX_RESULTS_PER_PAGE and its rows are the rows the
\* index returns for that request.
C2_CachedPageIsCurrentPage ==
    Cached =>
        /\ results_request # None
        /\ results_request.offset =
               (session_state.current_page - 1) * MAX_RESULTS_PER_PAGE
        /\ results_request.query = session_state.search_query
        /\ session_state.search_results =
               ToDataFrame(svc_search(corpus,
                                      results_request.query,
                                      results_request.limit,
                                      results_request.offset,
                                      results_request.filter))

\* A full first page is cached after a submit.
C2_Witness ==
    /\ action.name = "ClickSearch"
    /\ Listing
    /\ session_state.current_page = 1
    /\ results_request.offset = 0
    /\ session_state.total_count = MAX_RESULTS_PER_PAGE

\* C3: a click on Search with an empty query box is answered with the
\* empty-query warning, issues no call to the index and leaves search_query,
\* current_page, search_results and total_count as they were.
C3_EmptySubmitRejected ==
    [][(action'.name = "ClickSearch" /\ query_input = "" /\ shown'.controls)
         => /\ Has(notices', "empty_query")
            /\ SearchCalls(calls') = {}
            /\ SearchFields(session_state') = SearchFields(session_state)]_vars

\* An empty submit was rejected while a result page was cached.
C3_Witness ==
    /\ action.name = "ClickSearch"
    /\ query_input = ""
    /\ Has(notices, "empty_query")
    /\ Listing

\* C4: the Text Completion call is made by a Search click only: no other
\* action (query edit, upload-tab button, filter change, Previous / Next)
\* makes the script call it.
C4_SummaryOnlyOnSubmit ==
    CompleteCalls(calls) # {} => action.name = "ClickSearch"

\* The rows matching the last submitted query and filter, in rank order.
SubmittedMatches == Matching[corpus, submitted.query, submitted.filter]

\* C5: after a submit that lists rows the pager shows
\* ceil(t / MAX_RESULTS_PER_PAGE) pages for the t matching rows, and the
\* page holds rows 1 .. min(MAX_RESULTS_PER_PAGE, t).
C5_PagesCoverAllMatches ==
    (action.name = "ClickSearch" /\ shown.listing) =>
        /\ shown.pager[2] =
               (Len(SubmittedMatches) + MAX_RESULTS_PER_PAGE - 1)
                   \div MAX_RESULTS_PER_PAGE
        /\ session_state.search_results =
               ToDataFrame(SubSeq(SubmittedMatches, 1,
                                  Min(MAX_RESULTS_PER_PAGE,
                                      Len(SubmittedMatches))))

\* C6: Previous is offered only on a page after the first and Next only on
\* a page before the last, the listed page is one of 1 .. total pages, and
\* a Previous / Next click moves current_page only to a page in
\* 1 .. total pages of the page it was clicked on and fetches such a page.
C6_NavigationStaysInRange ==
    [][/\ shown'.listing =>
            /\ shown'.pager[1] = session_state'.current_page
            /\ session_state'.current_page \in 1 .. shown'.pager[2]
       /\ shown'.prev => shown'.pager[1] - 1 >= 1
       /\ shown'.next => shown'.pager[1] + 1 <= shown'.pager[2]
       /\ action'.name \in NavigationNames =>
            LET total_pages ==
                    (session_state.total_count + MAX_RESULTS_PER_PAGE - 1)
                        \div MAX_RESULTS_PER_PAGE
            IN  /\ session_state'.current_page # session_state.current_page
                     => session_state'.current_page \in 1 .. total_pages
                /\ \A i \in SearchCalls(calls') :
                       \E p \in 1 .. total_pages :
                           calls'[i].offset = (p - 1) * MAX_RESULTS_PER_PAGE]_vars

\* The only page of a result is listed, with more matching talks in the
\* index than it holds: neither page 0 nor page 2 can be asked for.
C6_Witness ==
    /\ shown.listing
    /\ shown.pager = <<1, 1>>
    /\ ~shown.prev /\ ~shown.next
    /\ action.name = "EditQuery"
    /\ Len(Matching[corpus, session_state.search_query,
                    results_request.filter]) > MAX_RESULTS_PER_PAGE

\* C7: no user action issues more than one call to the search service.
C7_OneSearchCallPerAction == Cardinality(SearchCalls(calls)) <= 1

\* A submit fetched once and its call failed.
C7_Witness ==
    /\ action.name = "ClickSearch"
    /\ Cardinality(SearchCalls(calls)) = 1
    /\ Has(notices, "search_error")
    /\ calls[1].query = "ai"

\* C8: the fetch of a Previous / Next click carries the query text and the
\* year filter of the last submit. (No reachable page offers Previous or
\* Next: see C18.)
C8_NavigationReusesSubmittedRequest ==
    action.name \in NavigationNames =>
        \A i \in SearchCalls(calls) :
            /\ calls[i].query = submitted.query
            /\ calls[i].filter = submitted.filter

\* C9: moving the year slider issues no call and leaves search_query,
\* current_page, search_results and total_count as they were.
C9_FilterChangeAlone ==
    [][action'.name = "ChangeYearFilter" =>
         /\ calls' = <<>>
         /\ SearchFields(session_state') = SearchFields(session_state)]_vars

\* The slider moved away from the filter of the page that stays cached.
C9_Witness ==
    /\ action.name = "ChangeYearFilter"
    /\ Listing
    /\ results_request.filter # FilterObj(session_state.selected_years)

\* C10: after a Search click whose fetch failed, the error notice is on the
\* page, no result page is cached, total_count is 0 and the search controls
\* are still there.
C10_SubmitFailureClearsPage ==
    (action.name = "ClickSearch" /\ Has(notices, "search_error")) =>
        /\ Has(shown.notices, "search_error")
        /\ session_state.search_results = None
        /\ session_state.total_count = 0
        /\ ~shown.listing
        /\ shown.controls

\* A submit failed for a query text other than the empty initial one.
C10_Witness ==
    /\ action.name = "ClickSearch"
    /\ Has(notices, "search_error")
    /\ session_state.search_query # ""
    /\ session_state.search_results = None

\* C11: no failure of a collaborator (session creation, store statement,
\* search call, completion call) goes uncaught: the only run an exception
\* stops is the one that has rendered the query box and meets int(None) at
\* the slider of an empty table, no collaborator having failed.
C11_NoFailureUncaught ==
    Has(notices, "uncaught_exception") =>
        /\ shown.query_box
        /\ ted_talks = EmptyTable

\* The first page is listed and the run that rendered it got no summary.
NoSummaryShown(S, page) ==
    page.listing /\ S.current_page = 1 /\ page.summary = NoTuple

\* C12: when the completion call of the run that renders the page fails, no
\* summary is shown, the error notice is on the page, and the cached rows,
\* page number and total count are still listed: unchanged by an action that
\* fetches nothing, and as the action's fetch stored them otherwise.
C12_CompletionFailureKeepsPage ==
    [][/\ Has(shown'.notices, "summary_error") => shown'.summary = NoTuple
       /\ NoSummaryShown(session_state', shown') =>
            /\ Has(shown'.notices, "summary_error")
            /\ shown'.pager[1] = session_state'.current_page
            /\ shown'.showing[3] = session_state'.total_count
            /\ session_state'.total_count =
                   Len(session_state'.search_results.rows)
            /\ IF SearchCalls(calls') = {}
               THEN SearchFields(session_state') = SearchFields(session_state)
               ELSE session_state'.search_results =
                        ToDataFrame(svc_search(corpus,
                                               results_request'.query,
                                               results_request'.limit,
                                               results_request'.offset,
                                               results_request'.filter))]_vars

\* A submit fetched rows and the completion call that followed failed.
C12_Witness ==
    /\ action.name = "ClickSearch"
    /\ SearchCalls(calls) # {}
    /\ Has(shown.notices, "summary_error")
    /\ shown.listing
    /\ shown.summary = NoTuple
    /\ session_state.total_count > 0

\* The talks of the index whose year lies in min_year .. max_year, ranked.
TalksOfYears(c, query, min_year, max_year) ==
    LET InRange(row) == row.VIDEO_YEAR[1] \in min_year .. max_year
    IN  SelectSeq(Ranked(c, query), InRange)

\* C13: for a year range (min_year, max_year) the filter semantic_search
\* sends admits a talk stored as 1 January of year y exactly when
\* min_year <= y <= max_year, so the rows returned are the requested slice of
\* exactly those talks; for no year range the request carries no filter.
C13_FilterAdmitsExactlyTheRange ==
    action.name = "semantic_search" =>
        \A i \in SearchCalls(calls) :
            LET years == session_state.selected_years
            IN  IF years = NoTuple
                THEN calls[i].filter = None
                ELSE /\ calls[i].filter # None
                     /\ \A y \in Years :
                            Admits(calls[i].filter,
                                   [VIDEO_YEAR |-> YearToTimestamp(y)])
                                <=> (years[1] <= y /\ y <= years[2])
                     /\ session_state.search_results # None =>
                            LET talks == TalksOfYears(corpus, calls[i].query,
                                                      years[1], years[2])
                            IN  session_state.search_results =
                                    ToDataFrame(Slice(talks, calls[i].offset,
                                                      calls[i].limit))

\* A one-year range left out the talks of another year the index holds.
C13_Witness ==
    /\ action.name = "semantic_search"
    /\ session_state.selected_years = <<FirstYear, FirstYear>>
    /\ corpus[LastYear] > 0
    /\ session_state.search_results # None
    /\ session_state.total_count > 0
    /\ calls[1].filter # None

\* C14: the page count the display computes for a stored total count t is
\* ceil(t / MAX_RESULTS_PER_PAGE), the least n with n * page size >= t; for
\* t = 0 the count is 0 and the run shows no rows, no pager, no Previous /
\* Next and no summary, and asks for none.
C14_PageCountIsCeiling ==
    action.name = "Render" =>
        LET t == session_state.total_count
        IN  /\ TotalPages(t) * MAX_RESULTS_PER_PAGE >= t
            /\ (TotalPages(t) - 1) * MAX_RESULTS_PER_PAGE < t
            /\ IF t = 0
               THEN /\ TotalPages(t) = 0
                    /\ ~shown.listing
                    /\ shown.pager = NoTuple
                    /\ shown.showing = NoTuple
                    /\ shown.summary = NoTuple
                    /\ ~shown.prev /\ ~shown.next
                    /\ CompleteCalls(calls) = {}
               ELSE /\ shown.listing
                    /\ shown.pager = <<session_state.current_page, TotalPages(t)>>

\* A total that is a whole number of pages was rendered.
C14_Witness ==
    /\ action.name = "Render"
    /\ session_state.total_count = 2 * MAX_RESULTS_PER_PAGE
    /\ shown.pager = <<1, 2>>
    /\ shown.next

\* The last action's fetch reached the index and returned.
Fetched(cs, ns) == SearchCalls(cs) # {} /\ ~Has(ns, "search_error")

\* C15: when a submit is followed by a second submit that sends the same
\* text and year filter to the same index and both fetches return, the
\* second leaves the cached rows (in their order), the page number, the
\* total count and the query as the first left them, whatever the session
\* held before the first.
C15_ResubmitIsDeterministic ==
    [][(/\ action'.name = "SubmitSecond"
        /\ Fetched(calls, notices)
        /\ Fetched(calls', notices')
        /\ submitted'.query = submitted.query
        /\ submitted'.filter = submitted.filter)
         => /\ SearchFields(session_state') = SearchFields(session_state)
            /\ session_state'.selected_years = session_state.selected_years
            /\ results_request' = results_request]_vars

\* The second submit listed rows, the first having started from a session
\* on another page.
C15_Witness ==
    /\ action.name = "SubmitSecond"
    /\ Fetched(calls, notices)
    /\ Listing
    /\ session_state.current_page = 1
    /\ session_state.total_count # MaxTotalCount

\* C16: a Search click with a non-empty text sets current_page to 1 and its
\* fetch carries limit = MAX_RESULTS_PER_PAGE and offset = 0; the fetch of a
\* Previous / Next click carries limit = MAX_RESULTS_PER_PAGE and
\* offset = (current_page - 1) * MAX_RESULTS_PER_PAGE for the page number
\* the click leaves in the session. A handler that ran and whose fetch raised
\* no error has issued it.
C16_FetchLimitAndOffset ==
    /\ (action.name = "ClickSearch" /\ query_input # "" /\ shown.controls) =>
           /\ session_state.current_page = 1
           /\ session_state.search_query = query_input
           /\ ~Has(notices, "search_error") => SearchCalls(calls) # {}
           /\ \A i \in SearchCalls(calls) :
                  /\ calls[i].limit = MAX_RESULTS_PER_PAGE
                  /\ calls[i].offset = 0
    /\ action.name \in NavigationNames =>
           /\ (~Has(notices, "search_error")
                  /\ ~Has(notices, "uncaught_exception"))
                => SearchCalls(calls) # {}
           /\ \A i \in SearchCalls(calls) :
                  /\ calls[i].limit = MAX_RESULTS_PER_PAGE
                  /\ calls[i].offset =
                         (session_state.current_page - 1) * MAX_RESULTS_PER_PAGE

\* A submit of a text fetched the first page.
C16_Witness ==
    /\ action.name = "ClickSearch"
    /\ session_state.current_page = 1
    /\ session_state.search_query = "ai"
    /\ \E i \in SearchCalls(calls) :
           /\ calls[i].offset = 0
           /\ calls[i].limit = MAX_RESULTS_PER_PAGE
           /\ calls[i].filter # None

\* The prompt's talks are the first min(3, n) rows of the session's cached
\* page, in their order, by title and description, the session being on
\* page 1 with rows cached.
SummarizesFirstRows(videos, S) ==
    /\ S.current_page = 1
    /\ HasRows(S)
    /\ Len(videos) = Min(3, Len(S.search_results.rows))
    /\ Len(videos) >= 1
    /\ \A k \in 1 .. Len(videos) :
           /\ videos[k].n = k
           /\ videos[k].title = S.search_results.rows[k].VIDEO_TITLE
           /\ videos[k].description = S.search_results.rows[k].VIDEO_DESCRIPTION

\* C17: every completion call an action makes carries the first min(3, n)
\* rows, in rank order, of the page cached when it is made, with n >= 1 and
\* the session on page 1: the session the action leaves or, for the run of
\* a Previous / Next click before its handler fires, the session it found.
C17_SummaryOfFirstRows ==
    [][\A i \in CompleteCalls(calls') :
           \/ /\ SummarizesFirstRows(calls'[i].videos, session_state')
              /\ results_request'.offset = 0
           \/ /\ action'.name \in NavigationNames
              /\ SummarizesFirstRows(calls'[i].videos, session_state)
              /\ results_request.offset = 0]_vars

\* A first page of fewer than three rows was summarized.
C17_Witness ==
    /\ action.name = "ClickSearch"
    /\ CompleteCalls(calls) # {}
    /\ session_state.total_count = FewTalks
    /\ \E i \in CompleteCalls(calls) : Len(calls[i].videos) = Min(3, FewTalks)

\* Number of rows of the cached result page, 0 when none is cached.
CachedRowCount(S) ==
    IF S.search_results = None THEN 0 ELSE Len(S.search_results.rows)

\* C18: the stored total count is always the number of rows of the cached
\* page (0 when none is cached); it is therefore at most
\* MAX_RESULTS_PER_PAGE, the page count is at most 1, Previous and Next are
\* never offered and current_page is 1.
C18_TotalCountIsPageLength ==
    /\ Ready => session_state.total_count = CachedRowCount(session_state)
    /\ ~shown.prev /\ ~shown.next
    /\ Ready =>
           /\ session_state.total_count <= MAX_RESULTS_PER_PAGE
           /\ TotalPages(session_state.total_count) <= 1
           /\ session_state.current_page = 1

\* A full page is listed as "Page 1 of 1" although the index holds more
\* matching talks than the page.
C18_Witness ==
    /\ action.name = "ClickSearch"
    /\ shown.listing
    /\ session_state.total_count = MAX_RESULTS_PER_PAGE
    /\ shown.pager = <<1, 1>>
    /\ Len(SubmittedMatches) > MAX_RESULTS_PER_PAGE

InitializeCallsOf(seq) == {i \in DOMAIN seq : seq[i].svc = "initialize"}

\* C19: while the session is not initialized every run of the script calls
\* initialize_snowflake first and, when it fails, stops before the search
\* controls; no call to the search service or to Complete is made by a
\* session that is not initialized; an initialized session never calls
\* initialize_snowflake again.
C19_InitializeOnceBeforeAnyCall ==
    [][/\ session_state.initialized => InitializeCallsOf(calls') = {}
       /\ (~session_state.initialized /\ action'.name = "Load") =>
              InitializeCallsOf(calls') = {1}
       /\ ~session_state'.initialized =>
              /\ SearchCalls(calls') = {}
              /\ CompleteCalls(calls') = {}
              /\ ~shown'.controls
              /\ ~shown'.upload_controls
              /\ shown'.buttons = {}
       /\ action'.name # "Load" => session_state.initialized]_vars

\* A run whose initialization failed has stopped before the controls.
C19_Witness ==
    /\ action.name = "Load"
    /\ ~session_state.initialized
    /\ Has(notices, "init_error")
    /\ InitializeCallsOf(calls) = {1}
    /\ ~shown.controls

====
